---- MODULE Spec2Model ----
(***************************************************************************)
(* A model of the distributed file store: the Discovery Service            *)
(* (discovery_server.py) and the file server nodes (file_server.py).       *)
(*                                                                         *)
(* Text is modelled as what it is: a string is a sequence of one-character *)
(* strings, a message is built by concatenation and taken apart by the     *)
(* same split() / split(":") / float() the code applies to it.             *)
(***************************************************************************)
EXTENDS Naturals, Sequences, FiniteSets, TLC

VARIABLES
    vName,      \* validate_filename: the filename under test
    vRes,       \* validate_filename: its result ("none" before the call)
    nodes,      \* discovery_server.nodes: the registry, in insertion order
    lock,       \* discovery_server.lock: "free" or the thread that holds it
    upd,        \* the update_nodes thread: its position and locals
    hnd,        \* handle_node_registration threads, one per join message text
    joinpc,     \* join_discovery_service task of each node
    subpc,      \* listen_for_discovery_updates task of each node
    NODES,      \* file_server.NODES of each node: the cached peer list
    reach,      \* whether each node's socket server accepts connections
    disk,       \* the files each node can open, by path relative to STORAGE
    rd,         \* the get_file request in progress on each node
    resp,       \* the last HTTP response a node has given
    peerLog,    \* the last peer request served (handle_socket_request)
    now,        \* wall-clock time
    hist        \* history: what the claims speak about and the code keeps nowhere

vars == <<vName, vRes, nodes, lock, upd, hnd, joinpc, subpc, NODES, reach,
          disk, rd, resp, peerLog, now, hist>>

-----------------------------------------------------------------------------
(* Bounds of the model *)

\* the longest filename body enumerated for validate_filename
MaxBody == 2
\* the last instant of the wall clock
MaxClock == 3
\* update passes the update_nodes thread runs
MaxPasses == 4
\* registration handler threads alive at once
MaxHandlers == 1
\* HTTP uploads in one run
MaxUploads == 2
\* HTTP reads in one run
MaxReads == 2
\* HTTP reads in progress at once
MaxInFlight == 1
\* entries of the registry a registration handler is started on
MaxReg == 2

(* Program constants *)

\* len(filename) < 255
NAME_MAX == 255
\* discovery_server.NODE_TIMEOUT
NODE_TIMEOUT == 3

-----------------------------------------------------------------------------
(* Strings *)

\* str.startswith / `needle in s`
SubstrAt(s, needle, i) ==
    /\ i + Len(needle) - 1 <= Len(s)
    /\ \A k \in 1..Len(needle) : s[i + k - 1] = needle[k]

SubstrIn(needle, s) == \E i \in 1..Len(s) : SubstrAt(s, needle, i)

\* str.split(): the maximal runs of non-blank characters
RECURSIVE SplitWs(_)
SplitWs(s) ==
    IF s = <<>> THEN <<>>
    ELSE IF Head(s) = " " THEN SplitWs(Tail(s))
    ELSE LET n == IF \E i \in 1..Len(s) : s[i] = " "
                  THEN (CHOOSE i \in 1..Len(s) :
                            s[i] = " " /\ \A j \in 1..(i - 1) : s[j] # " ") - 1
                  ELSE Len(s)
         IN  <<SubSeq(s, 1, n)>> \o SplitWs(SubSeq(s, n + 1, Len(s)))

\* str.split(sep): every field between separators, the empty ones included
RECURSIVE SplitSep(_, _)
SplitSep(s, sep) ==
    IF \E i \in 1..Len(s) : s[i] = sep
    THEN LET i == CHOOSE i \in 1..Len(s) :
                      s[i] = sep /\ \A j \in 1..(i - 1) : s[j] # sep
         IN  <<SubSeq(s, 1, i - 1)>> \o SplitSep(SubSeq(s, i + 1, Len(s)), sep)
    ELSE <<s>>

Digits == <<"0", "1", "2", "3", "4", "5", "6", "7", "8", "9">>

\* f"{timestamp}": the text of a timestamp
Str(t) == <<Digits[t + 1]>>

\* float(text) succeeds
IsFloat(tok) == \E t \in 0..9 : tok = Str(t)

\* float(text)
Float(tok) == CHOOSE t \in 0..9 : tok = Str(t)

-----------------------------------------------------------------------------
(* validate_filename *)

validate_filename_OffByOne(filename) ==
    /\ filename # <<>>
    /\ ~SubstrIn(<<"/">>, filename)
    /\ ~SubstrIn(<<"\\">>, filename)
    /\ ~SubstrIn(<<".", ".">>, filename)
    /\ Len(filename) <= NAME_MAX

validate_filename(filename) ==
    /\ filename # <<>>
    /\ ~SubstrIn(<<"/">>, filename)
    /\ ~SubstrIn(<<"\\">>, filename)
    /\ ~SubstrIn(<<".", ".">>, filename)
    /\ Len(filename) < NAME_MAX

\* the characters filenames are drawn from
NameChars == {"a", ".", "/", "\\", " "}

RECURSIVE StringsUpTo(_)
StringsUpTo(n) ==
    IF n = 0 THEN {<<>>}
    ELSE LET S == StringsUpTo(n - 1)
         IN  S \cup {Append(s, c) : s \in {t \in S : Len(t) = n - 1}, c \in NameChars}

Pad(n) == [i \in 1..n |-> "a"]

\* short names, and each of them continued with letters to around NAME_MAX
TestNames ==
    {body \o Pad(p) : body \in StringsUpTo(MaxBody),
                      p \in {0} \cup ((NAME_MAX - 2 - MaxBody)..(NAME_MAX + 1))}

-----------------------------------------------------------------------------
(* Addresses, messages *)

\* the file server nodes (processes running file_server.py)
Node == {"n1", "n2", "n3"}

\* the nodes started in the runs of the Discovery Service
DiscNode == {"n1"}

\* the nodes that serve HTTP requests in the runs of the replication
ReplNode == {"n1", "n2"}

\* f"{HOST}:{SOCK_PORT}" of each node
AddrText(n) ==
    IF n = "n1" THEN <<"x", ":", "1">>
    ELSE IF n = "n2" THEN <<"y", ":", "1">>
    ELSE <<"w", ":", "1">>

\* an endpoint that is not a file server of this repository: it may answer a
\* membership push with "OK"
ExtText == <<"e", ":", "1">>

\* an address with no port, and a join message with no address at all
BadText == <<"z">>
NoText == <<>>

\* the address texts of the join messages the Discovery Service is sent
ClientTexts == {ExtText, BadText, NoText}
JoinTexts == {AddrText(n) : n \in Node} \cup ClientTexts

\* tuple(text.split(":"))
AddrKey(text) == SplitSep(text, ":")

NodeKey(n) == AddrKey(AddrText(n))
ExtKey == AddrKey(ExtText)

\* every key the registry can hold
AllKeys == {AddrKey(SplitWs(t)[1]) : t \in {u \in JoinTexts : SplitWs(u) # <<>>}}

\* a message: its first word, then its text (or its lines, or raw bytes)
Msg(verb, text, lines, data) ==
    [verb |-> verb, text |-> text, lines |-> lines, data |-> data]

NoMsg == Msg("", <<>>, <<>>, "")

\* str.startswith on the first words the protocol uses
StartsWith(verb, prefix) ==
    \/ verb = prefix
    \/ prefix = "Last-Modified" /\ verb = "Last-Modified-Check"

\* "Peer-Node-Address-Listing\n" + "\n".join(f"{host}:{port}" for host, port in keys) + "\n"
\* raises ValueError when a key is not a pair
ListingRaises(keys) == \E i \in 1..Len(keys) : Len(keys[i]) # 2

ListingMessage(keys) ==
    Msg("Peer-Node-Address-Listing", <<>>,
        [i \in 1..Len(keys) |-> keys[i][1] \o <<":">> \o keys[i][2]], "")

\* [tuple(node.split(":")) for node in response.split("\n")[1:] if node]
RECURSIVE ParseLines(_)
ParseLines(lines) ==
    IF lines = <<>> THEN <<>>
    ELSE IF Head(lines) = <<>> THEN ParseLines(Tail(lines))
    ELSE <<AddrKey(Head(lines))>> \o ParseLines(Tail(lines))

ParseListing(response) == ParseLines(response.lines)

-----------------------------------------------------------------------------
(* Local storage *)

\* the names used in requests
F_a == <<"a">>
F_ab == <<"a", " ", "b">>
F_out == <<".", ".", "/", "s">>

\* every path a request can make a node open
Paths == {F_a, F_ab, F_out}

\* the names uploads and reads are asked for
FileNames == {F_a, F_ab, F_out}

NoFile == [exists |-> FALSE, data |-> "", mtime |-> 0]
File(data, mtime) == [exists |-> TRUE, data |-> data, mtime |-> mtime]

\* os.path.exists(os.path.join(STORAGE, filename))
Exists(n, filename) == filename \in Paths /\ disk[n][filename].exists

\* get_timestamp: the local claim, or None
get_timestamp(n, filename) ==
    IF ~validate_filename(filename) THEN NoMsg
    ELSE IF Exists(n, filename)
    THEN Msg("Last-Modified",
             filename \o <<" ">> \o Str(disk[n][filename].mtime) \o <<" ">> \o AddrText(n),
             <<>>, "")
    ELSE NoMsg

\* handle_socket_request: the reply to one peer request (NoMsg: nothing is sent)
handle_socket_request(n, data) ==
    IF StartsWith(data.verb, "Last-Modified-Check")
    THEN IF Len(SplitWs(data.text)) < 1
         THEN Msg("Error processing request", <<>>, <<>>, "Error processing request")
         ELSE LET response == get_timestamp(n, SplitWs(data.text)[1])
              IN  IF response = NoMsg
                  THEN Msg("File not found", <<>>, <<>>, "File not found")
                  ELSE response
    ELSE IF StartsWith(data.verb, "File-Provision-Request")
    THEN IF Len(SplitWs(data.text)) < 1
         THEN Msg("Error processing request", <<>>, <<>>, "Error processing request")
         ELSE LET filename == SplitWs(data.text)[1]
              IN  IF Exists(n, filename)
                  THEN Msg("bytes", <<>>, <<>>, disk[n][filename].data)
                  ELSE Msg("File not found", <<>>, <<>>, "File not found")
    ELSE IF StartsWith(data.verb, "Index-Listing-Request")
    THEN Msg("Index-Listing", <<>>, <<>>, "")
    ELSE NoMsg

-----------------------------------------------------------------------------
(* The Discovery Service: the registry *)

Entry(key, t) == [addr |-> key, last_seen |-> t, missed_updates |-> 0]

Range(seq) == {seq[i] : i \in 1..Len(seq)}

\* list(nodes.keys())
Keys(reg) == [i \in 1..Len(reg) |-> reg[i].addr]

\* node_address in nodes
InReg(reg, key) == \E i \in 1..Len(reg) : reg[i].addr = key

IndexOf(reg, key) == CHOOSE i \in 1..Len(reg) : reg[i].addr = key

\* if node_address not in nodes: nodes[node_address] = {...}
Register_Reset(reg, key, t) ==
    IF InReg(reg, key)
    THEN [reg EXCEPT ![IndexOf(reg, key)] = Entry(key, t)]
    ELSE Append(reg, Entry(key, t))

Register(reg, key, t) ==
    IF InReg(reg, key) THEN reg ELSE Append(reg, Entry(key, t))

\* missed_updates >= NODE_TIMEOUT
Unresponsive_Late(missed) == missed > NODE_TIMEOUT

Unresponsive(missed) == missed >= NODE_TIMEOUT

\* if success: missed_updates = 0, else: missed_updates += 1
Count_NoReset(missed, success) == IF success THEN missed ELSE missed + 1

Count(missed, success) == IF success THEN 0 ELSE missed + 1

\* for node in inactive_nodes: del nodes[node]
Evict_Nothing(reg, inactive) == reg

Evict(reg, inactive) ==
    LET keep(e) == \A i \in 1..Len(inactive) : inactive[i] # e.addr
    IN  SelectSeq(reg, keep)

\* send_to_node: the results the call can have, and whether the node's socket
\* server was handed the message
PushReceivers(key) == {n \in Node : NodeKey(n) = key /\ reach[n]}

send_to_node(key, message) ==
    IF \E n \in Node : NodeKey(n) = key
    THEN IF PushReceivers(key) # {}
         THEN {handle_socket_request(n, message).verb = "OK" : n \in PushReceivers(key)}
         ELSE {FALSE}
    ELSE IF key = ExtKey THEN {TRUE, FALSE}
    ELSE {FALSE}

-----------------------------------------------------------------------------
(* The Discovery Service: update_nodes *)

\* with lock: inactive_nodes = []; current_nodes = list(nodes.keys())
UpdBegin ==
    /\ upd.pc = "sleep"
    /\ lock = "free"
    /\ upd.passes < MaxPasses
    /\ lock' = "update_nodes"
    /\ upd' = [upd EXCEPT !.pc = "push", !.current = Keys(nodes), !.i = 1,
                          !.inactive = <<>>]
    /\ hist' = [hist EXCEPT !.gotPush = {}, !.pushed = {}]
    /\ UNCHANGED <<vName, vRes, nodes, hnd, joinpc, subpc, NODES, reach, disk,
                   rd, resp, peerLog, now>>

\* one turn of `for node in current_nodes`: build the message, push it, count
UpdPush ==
    /\ upd.pc = "push"
    /\ upd.i <= Len(upd.current)
    /\ IF ListingRaises(upd.current)
       THEN \* ValueError leaves `while True`: the thread ends, the lock is released
            /\ upd' = [upd EXCEPT !.pc = "dead"]
            /\ lock' = "free"
            /\ UNCHANGED <<nodes, hist>>
       ELSE LET node == upd.current[upd.i]
                k == IndexOf(nodes, node)
                message == ListingMessage(upd.current)
            IN  \E success \in send_to_node(node, message) :
                  /\ nodes' = [nodes EXCEPT
                         ![k].missed_updates = Count(@, success)]
                  /\ upd' = [upd EXCEPT
                         !.i = upd.i + 1,
                         !.inactive =
                             IF ~success /\ Unresponsive(Count(nodes[k].missed_updates, success))
                             THEN Append(upd.inactive, node)
                             ELSE upd.inactive]
                  /\ hist' = [hist EXCEPT
                         !.streak[node] = IF success THEN 0 ELSE @ + 1,
                         !.gotPush = @ \cup PushReceivers(node),
                         !.pushed = @ \cup Range(ParseListing(message))]
                  /\ lock' = lock
    /\ UNCHANGED <<vName, vRes, hnd, joinpc, subpc, NODES, reach, disk, rd,
                   resp, peerLog, now>>

\* after the loop: remove the unresponsive nodes, release the lock, sleep
UpdEnd ==
    /\ upd.pc = "push"
    /\ upd.i > Len(upd.current)
    /\ nodes' = Evict(nodes, upd.inactive)
    /\ lock' = "free"
    /\ upd' = [upd EXCEPT !.pc = "sleep", !.passes = @ + 1]
    /\ hist' = [hist EXCEPT
           !.gone = @ \cup {k \in AllKeys : hist.streak[k] >= NODE_TIMEOUT},
           !.pushed = {}]
    /\ UNCHANGED <<vName, vRes, hnd, joinpc, subpc, NODES, reach, disk, rd,
                   resp, peerLog, now>>

-----------------------------------------------------------------------------
(* The Discovery Service: handle_node_registration, and the nodes' join task *)

\* join_discovery_service, after recv: a listing replaces NODES; the loop is
\* left whatever was received
JoinReceive(t, response) ==
    IF \E n \in Node : AddrText(n) = t /\ joinpc[n] = "wait"
    THEN LET n == CHOOSE n \in Node : AddrText(n) = t
         IN  /\ joinpc' = [joinpc EXCEPT ![n] = "done"]
             /\ NODES' = IF StartsWith(response.verb, "Peer-Node-Address-Listing")
                         THEN [NODES EXCEPT ![n] = ParseListing(response)]
                         ELSE NODES
    ELSE UNCHANGED <<joinpc, NODES>>

\* join_discovery_service: connect and send the node's own address
JoinSend(n) ==
    /\ joinpc[n] = "start"
    /\ hnd[AddrText(n)] = "idle"
    /\ Cardinality({t \in JoinTexts : hnd[t] # "idle"}) < MaxHandlers
    /\ joinpc' = [joinpc EXCEPT ![n] = "wait"]
    /\ hnd' = [hnd EXCEPT ![AddrText(n)] = "accepted"]
    /\ UNCHANGED <<vName, vRes, nodes, lock, upd, subpc, NODES, reach, disk,
                   rd, resp, peerLog, now, hist>>

\* join_discovery_service: recv times out; sleep REJOIN_INTERVAL, try again
JoinTimeout(n) ==
    /\ joinpc[n] = "wait"
    /\ joinpc' = [joinpc EXCEPT ![n] = "start"]
    /\ UNCHANGED <<vName, vRes, nodes, lock, upd, hnd, subpc, NODES, reach,
                   disk, rd, resp, peerLog, now, hist>>

\* any other client of the Discovery Service sends a join message
ClientJoin(t) ==
    /\ hnd[t] = "idle"
    /\ Cardinality({u \in JoinTexts : hnd[u] # "idle"}) < MaxHandlers
    /\ hnd' = [hnd EXCEPT ![t] = "accepted"]
    /\ UNCHANGED <<vName, vRes, nodes, lock, upd, joinpc, subpc, NODES, reach,
                   disk, rd, resp, peerLog, now, hist>>

\* handle_node_registration up to the end of `with lock`
RegInsert(t) ==
    /\ hnd[t] = "accepted"
    /\ IF Len(SplitWs(t)) < 1
       THEN \* data.split()[1] raises IndexError: logged, the connection closed
            /\ hnd' = [hnd EXCEPT ![t] = "idle"]
            /\ hist' = [hist EXCEPT !.handlerErr = TRUE]
            /\ JoinReceive(t, NoMsg)
            /\ UNCHANGED nodes
       ELSE LET node_address == AddrKey(SplitWs(t)[1])
            IN  /\ lock = "free"
                /\ nodes' = Register(nodes, node_address, now)
                /\ hnd' = [hnd EXCEPT ![t] = "inserted"]
                /\ hist' = [hist EXCEPT
                       !.streak[node_address] =
                           IF InReg(nodes, node_address) THEN @ ELSE 0,
                       !.gone = @ \ {node_address}]
                /\ UNCHANGED <<joinpc, NODES>>
    /\ UNCHANGED <<vName, vRes, lock, upd, subpc, reach, disk, rd, resp,
                   peerLog, now>>

\* handle_node_registration after the lock: build the listing and reply
RegReply(t) ==
    /\ hnd[t] = "inserted"
    /\ hnd' = [hnd EXCEPT ![t] = "idle"]
    /\ IF ListingRaises(Keys(nodes))
       THEN /\ hist' = [hist EXCEPT
                   !.handlerErr = TRUE,
                   !.unanswered = @ \cup {t}]
            /\ JoinReceive(t, NoMsg)
       ELSE LET listing_message == ListingMessage(Keys(nodes))
            IN  /\ hist' = [hist EXCEPT
                       !.unanswered = @ \ {t},
                       !.listed = @ \cup {n \in Node : AddrText(n) = t /\ joinpc[n] = "wait"},
                       !.noSelf = @ \cup (IF SplitWs(t)[1] \in Range(listing_message.lines)
                                          THEN {} ELSE {t})]
                /\ JoinReceive(t, listing_message)
    /\ UNCHANGED <<vName, vRes, nodes, lock, upd, subpc, reach, disk, rd,
                   resp, peerLog, now>>

-----------------------------------------------------------------------------
(* The nodes: listen_for_discovery_updates, and the environment *)

\* connect to the Discovery Service; nothing is sent on this connection
SubConnect(n) ==
    /\ subpc[n] = "connect"
    /\ subpc' = [subpc EXCEPT ![n] = "recv"]
    /\ UNCHANGED <<vName, vRes, nodes, lock, upd, hnd, joinpc, NODES, reach,
                   disk, rd, resp, peerLog, now, hist>>

\* the handler at the other end is itself in recv and sends nothing: recv
\* times out after 5 s, the connection is closed; finally: sleep, reconnect
SubTimeout(n) ==
    /\ subpc[n] = "recv"
    /\ subpc' = [subpc EXCEPT ![n] = "connect"]
    /\ UNCHANGED <<vName, vRes, nodes, lock, upd, hnd, joinpc, NODES, reach,
                   disk, rd, resp, peerLog, now, hist>>

\* a node's socket server becomes unreachable, or reachable again
SetReach(n) ==
    /\ reach' = [reach EXCEPT ![n] = ~@]
    /\ UNCHANGED <<vName, vRes, nodes, lock, upd, hnd, joinpc, subpc, NODES,
                   disk, rd, resp, peerLog, now, hist>>

\* time passes; the clock is read only when a file is written, so an instant
\* in which nothing was written is not told apart from the one before it
Tick ==
    /\ now < MaxClock
    /\ \E n \in Node, p \in Paths : disk[n][p].exists /\ disk[n][p].mtime = now
    /\ now' = now + 1
    /\ UNCHANGED <<vName, vRes, nodes, lock, upd, hnd, joinpc, subpc, NODES,
                   reach, disk, rd, resp, peerLog, hist>>

-----------------------------------------------------------------------------
(* Initial state *)

NoUpload == [node |-> "", data |-> "", t |-> 0, seq |-> 0]

NoRead ==
    [pc |-> "idle", f |-> <<>>, peers |-> <<>>, i |-> 1, latest |-> NoMsg,
     latest_ts |-> 0, latest_node |-> <<>>, local |-> NoMsg, t0 |-> 0,
     seen |-> {}, allDown |-> FALSE, data |-> "", srcMatch |-> FALSE,
     base |-> NoUpload]

NoResp ==
    [n |-> "", op |-> "", f |-> <<>>, code |-> 0, body |-> "", cause |-> "",
     allDown |-> FALSE, fetched |-> FALSE, srcMatch |-> FALSE, win_ts |-> 0,
     base |-> NoUpload, fresh |-> FALSE]

InitHist ==
    [streak |-> [k \in AllKeys |-> 0],
     gone |-> {},
     gotPush |-> {},
     pushed |-> {},
     handlerErr |-> FALSE,
     unanswered |-> {},
     listed |-> {},
     noSelf |-> {},
     uploads |-> 0,
     reads |-> 0,
     lastUp |-> [f \in FileNames |-> NoUpload]]

InitRest ==
    /\ nodes = <<>>
    /\ lock = "free"
    /\ upd = [pc |-> "sleep", current |-> <<>>, i |-> 1, inactive |-> <<>>,
              passes |-> 0]
    /\ hnd = [t \in JoinTexts |-> "idle"]
    /\ joinpc = [n \in Node |-> "start"]
    /\ subpc = [n \in Node |-> "connect"]
    /\ NODES = [n \in Node |-> <<>>]
    /\ reach = [n \in Node |-> TRUE]
    /\ disk = [n \in Node |-> [p \in Paths |->
                  IF p = F_out THEN File("secret", 0) ELSE NoFile]]
    /\ rd = [n \in Node |-> NoRead]
    /\ resp = NoResp
    /\ peerLog = NoMsg
    /\ now = 1
    /\ hist = InitHist

InitBase ==
    /\ vName = <<>>
    /\ vRes = "none"
    /\ InitRest

NextDisc ==
    \/ UpdBegin
    \/ UpdPush
    \/ UpdEnd
    \/ \E n \in DiscNode : JoinSend(n)
    \/ \E n \in DiscNode : JoinTimeout(n)
    \/ \E t \in ClientTexts : ClientJoin(t)
    \/ \E t \in JoinTexts : RegInsert(t)
    \/ \E t \in JoinTexts : RegReply(t)
    \/ \E n \in DiscNode : SubConnect(n)
    \/ \E n \in DiscNode : SubTimeout(n)
    \/ \E n \in DiscNode : SetReach(n)

SpecDisc == InitBase /\ [][NextDisc]_vars

-----------------------------------------------------------------------------
(* The nodes: save_file *)

\* the node that answered
Stamp(n, response) == [response EXCEPT !.n = n]

Response(op, f, code, body, cause) ==
    [NoResp EXCEPT !.op = op, !.f = f, !.code = code, !.body = body,
                   !.cause = cause]

\* request.files["file"]: every upload carries bytes of its own
Bytes(seq) == <<"d1", "d2", "d3", "d4">>[seq]

\* POST /file/<filename>
save_file(n, filename, hasFile) ==
    /\ hist.uploads < MaxUploads
    /\ IF ~validate_filename(filename)
       THEN /\ resp' = Stamp(n, Response("post", filename, 400, "Invalid filename", ""))
            /\ UNCHANGED <<disk, hist>>
       ELSE IF ~hasFile
       THEN /\ resp' = Stamp(n, Response("post", filename, 400, "No file provided", ""))
            /\ UNCHANGED <<disk, hist>>
       ELSE /\ disk' = [disk EXCEPT ![n][filename] = File(Bytes(hist.uploads + 1), now)]
            /\ resp' = Stamp(n, Response("post", filename, 204, "", ""))
            /\ hist' = [hist EXCEPT
                   !.uploads = @ + 1,
                   !.lastUp[filename] =
                       [node |-> n, data |-> Bytes(hist.uploads + 1), t |-> now,
                        seq |-> hist.uploads + 1]]
    /\ UNCHANGED <<vName, vRes, nodes, lock, upd, hnd, joinpc, subpc, NODES,
                   reach, rd, peerLog, now>>

-----------------------------------------------------------------------------
(* The nodes: get_file and latest_timestamp *)

\* every cached peer address is one no socket server answers at
AllPeersDown(peers) ==
    /\ peers # <<>>
    /\ \A i \in 1..Len(peers) : \A m \in Node : NodeKey(m) = peers[i] => ~reach[m]

\* GET /file/<filename>, up to the start of the scan of the peers:
\* validate_filename, then latest_timestamp's local lookup
GetBegin(n, filename) ==
    /\ rd[n].pc = "idle"
    /\ Cardinality({m \in Node : rd[m].pc # "idle"}) < MaxInFlight
    /\ hist.reads < MaxReads
    /\ hist' = [hist EXCEPT !.reads = @ + 1]
    /\ IF ~validate_filename(filename)
       THEN /\ resp' = Stamp(n, Response("get", filename, 400, "Invalid filename", ""))
            /\ UNCHANGED rd
       ELSE LET latest == get_timestamp(n, filename)
            IN  IF latest # NoMsg /\ ~IsFloat(SplitWs(latest.text)[2])
                THEN \* float(latest.split()[2]) raises ValueError, caught nowhere
                     /\ resp' = Stamp(n,
                            [Response("get", filename, 500, "", "local-parse")
                                EXCEPT !.allDown = AllPeersDown(NODES[n]),
                                       !.base = hist.lastUp[filename],
                                       !.fresh = TRUE])
                     /\ UNCHANGED rd
                ELSE /\ rd' = [rd EXCEPT ![n] =
                            [NoRead EXCEPT
                                !.pc = "scan",
                                !.f = filename,
                                !.peers = NODES[n],
                                !.latest = latest,
                                !.latest_ts = IF latest # NoMsg
                                              THEN Float(SplitWs(latest.text)[2])
                                              ELSE 0,
                                !.local = latest,
                                !.t0 = IF Exists(n, filename)
                                       THEN disk[n][filename].mtime ELSE 0,
                                !.allDown = NODES[n] # <<>>,
                                !.base = hist.lastUp[filename]]]
                     /\ UNCHANGED resp
    /\ UNCHANGED <<vName, vRes, nodes, lock, upd, hnd, joinpc, subpc, NODES,
                   reach, disk, peerLog, now>>

\* the socket servers listening at an address
Listening(key) == {m \in Node : NodeKey(m) = key /\ reach[m]}

\* _, _, timestamp, node = response.split(); float(timestamp): no exception
WellFormedClaim(response) ==
    /\ Len(SplitWs(response.text)) = 3
    /\ IsFloat(SplitWs(response.text)[2])

\* the body of `for host, port in NODES` for one reply (NoMsg: nothing received)
Adopt(r, response) ==
    IF /\ StartsWith(response.verb, "Last-Modified")
       /\ WellFormedClaim(response)
       /\ Float(SplitWs(response.text)[2]) > r.latest_ts
    THEN [r EXCEPT !.latest_ts = Float(SplitWs(response.text)[2]),
                   !.latest_node = SplitWs(response.text)[3],
                   !.latest = response]
    ELSE r

\* what the scan has been told by the peers (history)
Note(r, key, response) ==
    IF StartsWith(response.verb, "Last-Modified") /\ WellFormedClaim(response)
    THEN [r EXCEPT !.seen = @ \cup {<<SplitWs(response.text)[3],
                                      Float(SplitWs(response.text)[2])>>},
                   !.allDown = FALSE]
    ELSE [r EXCEPT !.allDown = FALSE]

\* latest_timestamp: one turn of the loop over the cached peers
GetQuery(n) ==
    /\ rd[n].pc = "scan"
    /\ rd[n].i <= Len(rd[n].peers)
    /\ LET key == rd[n].peers[rd[n].i]
           message == Msg("Last-Modified-Check", rd[n].f, <<>>, "")
           next == [rd[n] EXCEPT !.i = @ + 1]
       IN  IF Listening(key) = {}
           THEN \* create_connection raises: logged, the peer is skipped
                rd' = [rd EXCEPT ![n] = next]
           ELSE \E m \in Listening(key) :
                    LET response == handle_socket_request(m, message)
                    IN  rd' = [rd EXCEPT ![n] = Note(Adopt(next, response), key, response)]
    /\ UNCHANGED <<vName, vRes, nodes, lock, upd, hnd, joinpc, subpc, NODES,
                   reach, disk, resp, peerLog, now, hist>>

\* the bytes recv returns for a reply
Wire(reply) == reply.data

\* history: the upload the read began after, and whether it is still the last
Ended(r, response) ==
    [response EXCEPT !.base = r.base, !.fresh = (hist.lastUp[r.f] = r.base)]

\* send_file(filepath): the local copy, or an error when there is none
SendFile(n, r, files) ==
    IF r.f \in Paths /\ files[n][r.f].exists
    THEN Ended(r, Response("get", r.f, 200, files[n][r.f].data, ""))
    ELSE Ended(r, Response("get", r.f, 500, "", "send_file"))

\* get_file after latest_timestamp has returned: not found, or fetch from the
\* owner, or serve the local copy
GetDecide(n) ==
    /\ rd[n].pc = "scan"
    /\ rd[n].i > Len(rd[n].peers)
    /\ LET r == rd[n]
       IN  IF r.latest = NoMsg /\ ~Exists(n, r.f)
           THEN /\ resp' = Stamp(n, Ended(r, Response("get", r.f, 404, "File not found", "")))
                /\ rd' = [rd EXCEPT ![n] = NoRead]
           ELSE IF r.latest_node # <<>> /\ r.latest_node # AddrText(n)
           THEN IF Len(SplitSep(r.latest_node, ":")) # 2
                     \/ Listening(AddrKey(r.latest_node)) = {}
                THEN /\ resp' = Stamp(n, Ended(r, Response("get", r.f, 500, "", "fetch")))
                     /\ rd' = [rd EXCEPT ![n] = NoRead]
                ELSE \E m \in Listening(AddrKey(r.latest_node)) :
                       LET reply == handle_socket_request(m,
                                        Msg("File-Provision-Request", r.f, <<>>, ""))
                       IN  /\ rd' = [rd EXCEPT ![n] =
                                  [r EXCEPT !.pc = "write",
                                            !.data = Wire(reply),
                                            !.srcMatch = /\ Exists(m, r.f)
                                                         /\ disk[m][r.f].data = Wire(reply)]]
                           /\ UNCHANGED resp
           ELSE /\ resp' = Stamp(n, SendFile(n, r, disk))
                /\ rd' = [rd EXCEPT ![n] = NoRead]
    /\ UNCHANGED <<vName, vRes, nodes, lock, upd, hnd, joinpc, subpc, NODES,
                   reach, disk, peerLog, now, hist>>

\* with open(filepath, "wb") as f: f.write(data); then send_file
GetWrite(n) ==
    /\ rd[n].pc = "write"
    /\ LET r == rd[n]
           files == [disk EXCEPT ![n][r.f] = File(r.data, now)]
       IN  /\ disk' = files
           /\ resp' = Stamp(n,
                  [SendFile(n, r, files) EXCEPT !.fetched = TRUE,
                                                !.srcMatch = r.srcMatch,
                                                !.win_ts = r.latest_ts])
           /\ rd' = [rd EXCEPT ![n] = NoRead]
    /\ UNCHANGED <<vName, vRes, nodes, lock, upd, hnd, joinpc, subpc, NODES,
                   reach, peerLog, now, hist>>

\* any peer sends one request to a node's socket server (handle_connection)
PeerRequest(n, verb, text) ==
    /\ reach[n]
    /\ peerLog' = [verb |-> verb, text |-> text, lines |-> <<>>,
                   data |-> handle_socket_request(n, Msg(verb, text, <<>>, "")).verb]
    /\ UNCHANGED <<vName, vRes, nodes, lock, upd, hnd, joinpc, subpc, NODES,
                   reach, disk, rd, resp, now, hist>>

\* the peer lists a join can have stored: a listing of the registry, which
\* holds the nodes in the order they registered, as it was when the node joined
PeerLists(n) ==
    LET all == <<NodeKey("n1"), NodeKey("n2")>>
        me == CHOOSE i \in 1..Len(all) : all[i] = NodeKey(n)
    IN  {SubSeq(all, 1, k) : k \in me..Len(all)}

InitRepl ==
    /\ vName = <<>>
    /\ vRes = "none"
    /\ nodes = <<>>
    /\ lock = "free"
    /\ upd = [pc |-> "sleep", current |-> <<>>, i |-> 1, inactive |-> <<>>,
              passes |-> 0]
    /\ hnd = [t \in JoinTexts |-> "idle"]
    /\ joinpc = [n \in Node |-> "done"]
    /\ subpc = [n \in Node |-> "connect"]
    /\ NODES \in {L \in [Node -> {<<>>} \cup UNION {PeerLists(n) : n \in ReplNode}] :
                     \A n \in Node : IF n \in ReplNode THEN L[n] \in PeerLists(n)
                                                        ELSE L[n] = <<>>}
    /\ reach = [n \in Node |-> TRUE]
    /\ disk = [n \in Node |-> [p \in Paths |->
                  IF p = F_out THEN File("secret", 0) ELSE NoFile]]
    /\ rd = [n \in Node |-> NoRead]
    /\ resp = NoResp
    /\ peerLog = NoMsg
    /\ now = 1
    /\ hist = [InitHist EXCEPT !.listed = Node]

NextRepl ==
    \/ \E n \in ReplNode, f \in FileNames, hasFile \in BOOLEAN : save_file(n, f, hasFile)
    \/ \E n \in ReplNode, f \in FileNames : GetBegin(n, f)
    \/ \E n \in ReplNode : GetQuery(n)
    \/ \E n \in ReplNode : GetDecide(n)
    \/ \E n \in ReplNode : GetWrite(n)
    \/ \E n \in ReplNode : SetReach(n)
    \/ Tick

SpecRepl == InitRepl /\ [][NextRepl]_vars

\* the socket server alone: uploads, and requests from any peer
NextPeer ==
    \/ \E n \in ReplNode, f \in FileNames, hasFile \in BOOLEAN : save_file(n, f, hasFile)
    \/ \E n \in ReplNode, verb \in {"Last-Modified-Check", "File-Provision-Request"},
          f \in FileNames : PeerRequest(n, verb, f)
    \/ \E n \in ReplNode : SetReach(n)
    \/ Tick

SpecPeer == InitRepl /\ [][NextPeer]_vars

-----------------------------------------------------------------------------
(* Three nodes serving one HTTP request at a time: no upload arrives while a *)
(* read is in progress                                                       *)

InitSeq ==
    /\ vName = <<>>
    /\ vRes = "none"
    /\ nodes = <<>>
    /\ lock = "free"
    /\ upd = [pc |-> "sleep", current |-> <<>>, i |-> 1, inactive |-> <<>>,
              passes |-> 0]
    /\ hnd = [t \in JoinTexts |-> "idle"]
    /\ joinpc = [n \in Node |-> "done"]
    /\ subpc = [n \in Node |-> "connect"]
    /\ NODES = [n \in Node |-> <<NodeKey("n1"), NodeKey("n2"), NodeKey("n3")>>]
    /\ reach = [n \in Node |-> TRUE]
    /\ disk = [n \in Node |-> [p \in Paths |->
                  IF p = F_out THEN File("secret", 0) ELSE NoFile]]
    /\ rd = [n \in Node |-> NoRead]
    /\ resp = NoResp
    /\ peerLog = NoMsg
    /\ now = 1
    /\ hist = [InitHist EXCEPT !.listed = Node]

NextSeq ==
    \/ \E n \in Node : (\A m \in Node : rd[m].pc = "idle") /\ save_file(n, F_a, TRUE)
    \/ \E n \in Node : GetBegin(n, F_a)
    \/ \E n \in Node : GetQuery(n)
    \/ \E n \in Node : GetDecide(n)
    \/ \E n \in Node : GetWrite(n)
    \/ \E n \in Node : (\A m \in Node : rd[m].pc = "idle") /\ SetReach(n)
    \/ Tick

SpecSeq == InitSeq /\ [][NextSeq]_vars

-----------------------------------------------------------------------------
(* latest_timestamp as a function of the local state, the peers' states and  *)
(* the order of the cached peer list                                         *)

\* the node whose reads are followed
Reader == "n1"

\* the stored copy each node can have of a file: none, or bytes of its own
\* written at some earlier time
Copies(n) ==
    {NoFile} \cup {File(Bytes(CHOOSE k \in 1..3 : <<"n1", "n2", "n3">>[k] = n), t) :
                       t \in 1..(MaxClock - 1)}

\* every order of a list
Orders(seq) ==
    {[i \in 1..Len(seq) |-> seq[f[i]]] :
        f \in {g \in [1..Len(seq) -> 1..Len(seq)] :
                  \A i, j \in 1..Len(seq) : g[i] = g[j] => i = j}}

InitScan ==
    /\ vName = <<>>
    /\ vRes = "none"
    /\ nodes = <<>>
    /\ lock = "free"
    /\ upd = [pc |-> "sleep", current |-> <<>>, i |-> 1, inactive |-> <<>>,
              passes |-> 0]
    /\ hnd = [t \in JoinTexts |-> "idle"]
    /\ joinpc = [n \in Node |-> "done"]
    /\ subpc = [n \in Node |-> "connect"]
    /\ NODES \in {[n \in Node |-> IF n = Reader THEN peers ELSE <<>>] :
                     peers \in Orders(<<NodeKey("n1"), NodeKey("n2"), NodeKey("n3")>>)}
    /\ reach \in [Node -> BOOLEAN]
    /\ reach[Reader]
    /\ disk \in {[n \in Node |-> [p \in Paths |->
                       IF p = F_a THEN c[n]
                       ELSE IF p = F_out THEN File("secret", 0) ELSE NoFile]] :
                    c \in {g \in [Node -> UNION {Copies(n) : n \in Node}] :
                              \A n \in Node : g[n] \in Copies(n)}}
    /\ rd = [n \in Node |-> NoRead]
    /\ resp = NoResp
    /\ peerLog = NoMsg
    /\ now = MaxClock
    /\ hist = [InitHist EXCEPT !.listed = Node]

\* reads of the file the copies are of
NextScan ==
    \/ GetBegin(Reader, F_a)
    \/ GetQuery(Reader)
    \/ GetDecide(Reader)
    \/ GetWrite(Reader)

SpecScan == InitScan /\ [][NextScan]_vars

\* latest_timestamp's loop over a list of peers, from the record r
RECURSIVE ScanFrom(_, _)
ScanFrom(r, peers) ==
    IF peers = <<>> THEN r
    ELSE LET key == Head(peers)
             message == Msg("Last-Modified-Check", r.f, <<>>, "")
             after == IF Listening(key) = {} THEN r
                      ELSE Adopt(r, handle_socket_request(
                                        CHOOSE m \in Listening(key) : TRUE, message))
         IN  ScanFrom(after, Tail(peers))

\* latest_timestamp of the read in progress on n, had NODES been in the order peers
latest_timestamp(n, peers) ==
    ScanFrom([rd[n] EXCEPT !.latest = rd[n].local, !.latest_ts = rd[n].t0,
                           !.latest_node = <<>>], peers)

-----------------------------------------------------------------------------
(* Claims about the nodes *)

Max(S) == CHOOSE x \in S : \A y \in S : y <= x

\* the scan of the peers has ended and latest_timestamp returns
Returned(n) == rd[n].pc = "scan" /\ rd[n].i > Len(rd[n].peers)

\* C1: latest_timestamp returns (it does not raise), and what it returns is
\* the maximum of the local timestamp T0 and the timestamps the peers
\* reported, with no owner when T0 is that maximum and otherwise an owner that
\* reported it.
C1_ResolutionReturnsMax ==
    /\ ~(resp.op = "get" /\ resp.cause = "local-parse")
    /\ \A n \in Node : Returned(n) =>
           LET mx == Max({rd[n].t0} \cup {p[2] : p \in rd[n].seen})
           IN  /\ rd[n].latest_ts = mx
               /\ rd[n].t0 = mx => rd[n].latest_node = <<>> /\ rd[n].latest = rd[n].local
               /\ rd[n].t0 < mx => <<rd[n].latest_node, mx>> \in rd[n].seen

\* C4: with every cached peer unreachable, latest_timestamp returns (it does
\* not raise), and returns the local claim and no owner.
C4_AllPeersDownLocalClaim ==
    /\ ~(resp.op = "get" /\ resp.cause = "local-parse" /\ resp.allDown)
    /\ \A n \in Node : (Returned(n) /\ rd[n].allDown) =>
           rd[n].latest = rd[n].local /\ rd[n].latest_node = <<>>

\* C5: a read of a valid filename fails only when the fetch from the winning
\* owner fails.
C5_OnlyFetchIsFatal ==
    (resp.op = "get" /\ resp.code = 500) => resp.cause = "fetch"

\* C6: a read that fetched from the winning owner B and succeeded left the
\* bytes B stored for that filename in the local copy, with a local timestamp
\* that is at least the winning one.
C6_FetchedCopyIsOwners ==
    (resp.op = "get" /\ resp.code = 200 /\ resp.fetched) =>
        /\ resp.srcMatch
        /\ disk[resp.n][resp.f].exists
        /\ disk[resp.n][resp.f].mtime >= resp.win_ts

\* C7: a read on the node of the last upload of the file, begun after that
\* upload and ended with no other upload of the file in between, returns the
\* uploaded bytes, and the node's timestamp is at least the upload time.
C7_RoundTrip ==
    (resp.op = "get" /\ resp.base.seq > 0 /\ resp.base.node = resp.n /\ resp.fresh) =>
        /\ resp.code = 200
        /\ resp.body = resp.base.data
        /\ disk[resp.n][resp.f].mtime >= resp.base.t

\* C9: a peer request whose filename fails validate_filename is answered with
\* no file and no claim.
C9_InvalidNamesNeverServed ==
    (peerLog.verb \in {"Last-Modified-Check", "File-Provision-Request"}
        /\ ~validate_filename(SplitWs(peerLog.text)[1])) =>
        peerLog.data \notin {"bytes", "Last-Modified"}

\* C15: when latest_timestamp returns, the winning timestamp and the winning
\* owner are those it returns for every other order of the same cached peer
\* list, peers that report the same greatest timestamp included.
C15_OrderIndependent ==
    \A n \in Node : Returned(n) =>
        \A peers \in Orders(rd[n].peers) :
            /\ latest_timestamp(n, peers).latest_ts = rd[n].latest_ts
            /\ latest_timestamp(n, peers).latest_node = rd[n].latest_node

\* C19: when get_file is about to write the bytes it fetched, the timestamp
\* of the fetched copy is greater than the timestamp the local copy has then.
C19_WriteOnlyNewer ==
    \A n \in Node :
        (rd[n].pc = "write" /\ Exists(n, rd[n].f)) =>
            rd[n].latest_ts > disk[n][rd[n].f].mtime

\* the upload a stored content came from
SeqOf(data) == CHOOSE k \in 1..4 : Bytes(k) = data

\* the filenames a peer request carries unchanged
PlainNames == {f \in FileNames : validate_filename(f) /\ SplitWs(f) = <<f>>}

\* C20: of two copies of a file, the one whose content was uploaded earlier
\* never has the greater timestamp; and no copy is overwritten with content
\* that was uploaded earlier than the content it holds.
C20_LastWriteWins ==
    /\ [](\A f \in PlainNames : \A n, m \in Node :
             (/\ disk[n][f].exists /\ disk[m][f].exists
              /\ SeqOf(disk[n][f].data) < SeqOf(disk[m][f].data)) =>
                 disk[n][f].mtime <= disk[m][f].mtime)
    /\ [][\A f \in PlainNames : \A n \in Node :
             (disk[n][f].exists /\ disk'[n][f].data # disk[n][f].data) =>
                 SeqOf(disk'[n][f].data) > SeqOf(disk[n][f].data)]_vars

-----------------------------------------------------------------------------
(* Claims about the Discovery Service *)

\* C2: a key that failed NODE_TIMEOUT consecutive pushes since it was
\* registered is out of the registry once the pass of its last failure has
\* ended, and no listing pushed in a later pass names it, unless it has
\* registered again.
C2_EvictedAndOmitted ==
    /\ upd.pc # "push" =>
           \A k \in AllKeys : hist.streak[k] >= NODE_TIMEOUT => ~InReg(nodes, k)
    /\ hist.pushed \cap hist.gone = {}

\* a later pass pushes a listing to a remaining member after an eviction
C2_Witness ==
    /\ \E k \in hist.gone : hist.streak[k] >= NODE_TIMEOUT
    /\ hist.pushed # {}

\* C3: once a pass has completed, every node that had joined and whose
\* socket server was handed that pass's push has every address registered
\* before the pass (the pass's snapshot) in its NODES.
C3_PushReplacesCache ==
    (upd.pc = "sleep" /\ upd.passes >= 1) =>
        \A m \in hist.gotPush :
            joinpc[m] = "done" => Range(upd.current) \subseteq Range(NODES[m])

\* C11: while no update pass is in progress (and whenever the update thread
\* does not hold the lock), every registry entry has a missed-update counter
\* in 0..NODE_TIMEOUT-1: an entry that reached NODE_TIMEOUT was deleted
\* before the pass released the lock.
C11_CountersBelowThreshold ==
    (upd.pc # "push" \/ lock # "update_nodes") =>
        \A i \in 1..Len(nodes) : nodes[i].missed_updates \in 0..(NODE_TIMEOUT - 1)

\* a pass has ended with an eviction while another entry stays at its last
\* tolerated count
C11_Witness ==
    /\ upd.pc = "sleep"
    /\ lock = "free"
    /\ \E k \in AllKeys : hist.streak[k] >= NODE_TIMEOUT /\ ~InReg(nodes, k)
    /\ \E i \in 1..Len(nodes) : nodes[i].missed_updates = NODE_TIMEOUT - 1

\* C12: an address leaves the registry only when its last NODE_TIMEOUT pushes
\* in a row have failed: a push that was acknowledged in between starts the
\* count again, so an address that acknowledges one push in every
\* NODE_TIMEOUT passes stays.
C12_EvictedOnlyAfterThreeMisses ==
    [][\A k \in AllKeys :
          (InReg(nodes, k) /\ ~InReg(nodes', k)) => hist.streak[k] >= NODE_TIMEOUT]_vars

\* the last pass has evicted an address at its NODE_TIMEOUT-th failure in a
\* row and kept another whose last push alone has failed
C12_Witness ==
    /\ upd.pc = "sleep"
    /\ \E k \in AllKeys : hist.streak[k] >= NODE_TIMEOUT /\ ~InReg(nodes, k)
    /\ InReg(nodes, ExtKey)
    /\ hist.streak[ExtKey] = 1
    /\ upd.passes = MaxPasses

\* C14: a node whose join task has ended has had its NODES replaced by a
\* listing received from the Discovery Service.
C14_JoinEndsWithListing ==
    \A n \in Node : joinpc[n] = "done" => n \in hist.listed

\* C16: a Register is atomic with respect to the update passes: while a
\* registration handler is between its insert and the read of the registry
\* for its reply listing, the lock is the handler's, so update_nodes does not
\* hold it.
C16_RegistryAccessLocked ==
    \A t \in JoinTexts : hnd[t] = "inserted" => lock # "update_nodes"

\* C17: every listing sent in reply to a Register names the address that was
\* registered.
C17_ListingNamesRequester ==
    hist.noSelf = {}

\* C18: a node of this repository that was handed a membership push by its
\* socket server in the current pass has answered it: its entry is in the
\* registry with counter 0.
C18_RunningNodeAcknowledges ==
    \A n \in hist.gotPush :
        /\ InReg(nodes, NodeKey(n))
        /\ nodes[IndexOf(nodes, NodeKey(n))].missed_updates = 0

\* the join messages whose address is one host and one port
WellFormedTexts == {t \in JoinTexts : Len(SplitWs(t)) >= 1 /\ Len(AddrKey(SplitWs(t)[1])) = 2}

\* C10: after a registration handler has raised, the update_nodes thread is
\* still running and no Register of a well-formed address has gone without
\* its listing.
C10_HandlerErrorConfined ==
    hist.handlerErr =>
        /\ upd.pc # "dead"
        /\ hist.unanswered \cap WellFormedTexts = {}

-----------------------------------------------------------------------------
(* The registration handlers alone, started on any registry *)

\* the registries update_nodes and earlier registrations can have left:
\* distinct addresses, inserted at an earlier time, with the least or the
\* greatest counter an entry can have between passes
RECURSIVE Registries(_)
Registries(n) ==
    IF n = 0 THEN {<<>>}
    ELSE LET S == Registries(n - 1)
         IN  S \cup {Append(reg, [addr |-> k, last_seen |-> t, missed_updates |-> c]) :
                         reg \in {r \in S : Len(r) = n - 1},
                         k \in AllKeys, t \in {1}, c \in {0, NODE_TIMEOUT - 1}}

InitReg ==
    /\ vName = <<>>
    /\ vRes = "none"
    /\ nodes \in {reg \in Registries(MaxReg) :
                     \A i, j \in 1..Len(reg) : reg[i].addr = reg[j].addr => i = j}
    /\ lock = "free"
    /\ upd = [pc |-> "sleep", current |-> <<>>, i |-> 1, inactive |-> <<>>,
              passes |-> 0]
    /\ hnd = [t \in JoinTexts |-> "idle"]
    /\ joinpc = [n \in Node |-> "start"]
    /\ subpc = [n \in Node |-> "connect"]
    /\ NODES = [n \in Node |-> <<>>]
    /\ reach = [n \in Node |-> TRUE]
    /\ disk = [n \in Node |-> [p \in Paths |->
                  IF p = F_out THEN File("secret", 0) ELSE NoFile]]
    /\ rd = [n \in Node |-> NoRead]
    /\ resp = NoResp
    /\ peerLog = NoMsg
    /\ now = 2
    /\ hist = [InitHist EXCEPT
                  !.streak = [k \in AllKeys |->
                                 IF InReg(nodes, k)
                                 THEN nodes[IndexOf(nodes, k)].missed_updates
                                 ELSE 0]]

NextReg ==
    \/ \E t \in JoinTexts : ClientJoin(t)
    \/ \E t \in JoinTexts : RegInsert(t)
    \/ \E t \in JoinTexts : RegReply(t)

SpecReg == InitReg /\ [][NextReg]_vars

\* C13: a Register of an address the registry holds leaves the registry as it
\* is, counter and last-seen time of that address included; a Register of an
\* address it does not hold appends one entry for it, with counter 0 and the
\* time of the call, and leaves every other entry as it is.
C13_RegisterIdempotent ==
    [][\A t \in JoinTexts :
          (hnd[t] = "accepted" /\ hnd'[t] = "inserted") =>
              LET addr == AddrKey(SplitWs(t)[1])
              IN  IF \E i \in 1..Len(nodes) : nodes[i].addr = addr
                  THEN nodes' = nodes
                  ELSE /\ Len(nodes') = Len(nodes) + 1
                       /\ \A i \in 1..Len(nodes) : nodes'[i] = nodes[i]
                       /\ nodes'[Len(nodes')] =
                              [addr |-> addr, last_seen |-> now, missed_updates |-> 0]]_vars

\* a handler has registered an address that was there, with failed pushes
\* counted and an earlier last-seen time
C13_Witness ==
    \E t \in JoinTexts :
        /\ hnd[t] = "inserted"
        /\ \E i \in 1..Len(nodes) :
               /\ nodes[i].addr = AddrKey(SplitWs(t)[1])
               /\ nodes[i].missed_updates > 0
               /\ nodes[i].last_seen < now

-----------------------------------------------------------------------------
(* validate_filename as a function of its input *)

Validate ==
    /\ vRes = "none"
    /\ vRes' = IF validate_filename(vName) THEN "accept" ELSE "reject"
    /\ UNCHANGED <<vName, nodes, lock, upd, hnd, joinpc, subpc, NODES, reach,
                   disk, rd, resp, peerLog, now, hist>>

InitValidate ==
    /\ vName \in TestNames
    /\ vRes = "none"
    /\ InitRest

NextValidate == Validate

SpecValidate == InitValidate /\ [][NextValidate]_vars

\* the rejected names, as the specification lists them
HasChar(f, c) == \E i \in 1..Len(f) : f[i] = c

HasDotDot(f) == \E i \in 1..Len(f) : i < Len(f) /\ f[i] = "." /\ f[i + 1] = "."

\* C8: validate_filename rejects f iff f is empty, has 255 or more characters,
\* or contains '/', '\' or '..'.
C8_RejectsExactly ==
    vRes # "none" =>
        (vRes = "reject" <=>
            \/ Len(vName) = 0
            \/ Len(vName) >= 255
            \/ HasChar(vName, "/")
            \/ HasChar(vName, "\\")
            \/ HasDotDot(vName))

\* a name of exactly 255 harmless characters has been rejected, and one of
\* 254 would be accepted
C8_Witness ==
    /\ vRes = "reject"
    /\ Len(vName) = 255
    /\ ~HasChar(vName, "/") /\ ~HasChar(vName, "\\") /\ ~HasDotDot(vName)

====
